---- MODULE Spec2Model ----
(***************************************************************************)
(* Model of examples/agent/bridge-executor/executor.py of switchAILocal:   *)
(* execute_http_request opens a WebSocket, writes one http_request         *)
(* envelope and then reads inbound frames in a loop until a terminal       *)
(* message, a closed connection, a receive timeout or an exception.        *)
(*                                                                         *)
(* Text is modelled as a sequence of tokens (a Python str is a Seq of      *)
(* STRING, concatenation is \o); standard output is one such text.  The    *)
(* emoji that start the program's console lines are left out of the        *)
(* labels.  A JSON object is a function whose DOMAIN is its key set, so    *)
(* dict.get(key, default) is Get.                                          *)
(*                                                                         *)
(* A second part models examples/agent/active-coder/coder.py (SpecCoder):  *)
(* main asks the model for code, extract_code takes the fenced python      *)
(* block of the answer and execute_code runs it once the user agrees.      *)
(***************************************************************************)
EXTENDS Integers, Sequences, FiniteSets, TLC

VARIABLES
  pc,      \* where the call is: "connect", "send", "recv" (line 49), "done";
           \* "off" when the script that runs is coder.py
  exit,    \* the return or except clause the call ended through, "none" before
  conn,    \* the connection: "none", "open", "lost" (dropped), "released"
  args,    \* method, url, body
  sent,    \* the frames written to the connection
  rx,      \* the frames ws.recv() has returned
  stdout,  \* the console text
  result,  \* the value returned
  now,     \* time units since the request was sent
  \* active-coder/coder.py, a script of its own that shares only the console
  cpc,      \* where main is: "off", "main", "extract", "input", "run", "exited"
  argv,     \* sys.argv
  response, \* what ask_llm returned
  code,     \* what extract_code returned
  confirm,  \* what input() returned
  executed, \* the code texts handed to subprocess.run
  status    \* the exit status of the process, "running" before it ends

\* the variables of execute_http_request other than the console
evars == <<pc, exit, conn, args, sent, rx, result, now>>

\* the variables of coder.py other than the console
cvars == <<cpc, argv, response, code, confirm, executed, status>>

vars == <<pc, exit, conn, args, sent, rx, stdout, result, now,
          cpc, argv, response, code, confirm, executed, status>>

----------------------------------------------------------------------------
(* Bounds of the model *)

\* frames the peer sends at most in one call (Spec)
MaxFrames == 3
\* frames the peer sends at most in one call (SpecStream)
MaxStreamFrames == 5
\* frames the peer sends at most in one call (SpecTimed)
MaxTimedFrames == 3

----------------------------------------------------------------------------
(* Program constants and Python values *)

\* asyncio.wait_for(ws.recv(), timeout=30)
Timeout == 30

WS_URL == "ws://localhost:8081/ws"

\* uuid.uuid4(): the identifier of this call, and another one
RequestId == "uuid-1"
OtherId == "uuid-2"

\* the value None as a returned result, and the result of a call still running
PyNone == [none |-> TRUE]
NotReturned == [running |-> TRUE]
\* None as the value of response.get("type") when the key is absent
NoneType == "None"

\* the empty dict {}
EmptyDict == [k \in {} |-> TRUE]
\* a JSON value that is no object (a string, a number, a list, null)
Scalar == [json_scalar |-> "oops"]

IsDict(v) == "json_scalar" \notin DOMAIN v

\* dict.get(key, default)
Get(d, k, default) == IF k \in DOMAIN d THEN d[k] ELSE default

\* one console line: print(f"{label}{arg}{tail}")
Line(label, arg, tail) == <<label>> \o arg \o <<tail, "\n">>

----------------------------------------------------------------------------
(* The wire: a frame is JSON text of a value, or text that is no JSON *)

JsonDumps(v) == [json |-> v]
NotJson(t) == [text |-> t]
Decodes(raw) == "json" \in DOMAIN raw
JsonLoads(raw) == raw.json

\* str(e) of the exception json.loads raises on text that is no JSON
JsonErrorText == <<"Expecting value: line 1 column 1 (char 0)">>
\* str(e) of the AttributeError raised by .get on a value that is no dict
AttributeErrorText == <<"'str' object has no attribute 'get'">>

----------------------------------------------------------------------------
(* The call's arguments and the request envelope *)

\* body of the chat command in main
ChatBody ==
  [model |-> "gemini-2.5-flash",
   messages |-> <<[role |-> "user", content |-> "Hello"]>>,
   stream |-> FALSE]

\* the two calls main makes
Calls ==
  { [method |-> "GET", url |-> "/v1/models", body |-> PyNone],
    [method |-> "POST", url |-> "/v1/chat/completions", body |-> ChatBody] }

\* Python truth of the body argument: None and {} are false
Truthy(body) == body # PyNone /\ DOMAIN body # {}

\* json.dumps of the request body, as text
DumpsText(body) ==
  IF body = ChatBody
  THEN <<"{\"model\": \"gemini-2.5-flash\", \"messages\": [{\"role\": \"user\", \"content\": \"Hello\"}], \"stream\": false}">>
  ELSE <<"{...}">>

\* the envelope built before connecting
Message(a) ==
  [id |-> RequestId,
   type |-> "http_request",
   payload |->
     [method |-> a.method,
      url |-> a.url,
      headers |-> ("Content-Type" :> <<"application/json">>),
      body |-> IF Truthy(a.body) THEN DumpsText(a.body) ELSE <<>>]]

----------------------------------------------------------------------------
(* What one loop iteration reads from a decoded frame *)

MsgType(raw) == Get(JsonLoads(raw), "type", NoneType)
MsgId(raw) == Get(JsonLoads(raw), "id", NoneType)
Payload(raw) == Get(JsonLoads(raw), "payload", EmptyDict)

\* the frame decodes to a dict, so the three .get calls succeed
IsEnvelope(raw) == IF Decodes(raw) THEN IsDict(JsonLoads(raw)) ELSE FALSE

\* the message types whose branch calls payload.get
ReadsPayload == {"http_response", "stream_start", "stream_chunk", "error"}

\* handling the frame raises (json.loads, response.get or payload.get)
Raises(raw) ==
  IF ~Decodes(raw) THEN TRUE
  ELSE IF ~IsDict(JsonLoads(raw)) THEN TRUE
  ELSE MsgType(raw) \in ReadsPayload /\ ~IsDict(Payload(raw))

\* str(e) of the exception Raises(raw) is about
ExceptionText(raw) == IF ~Decodes(raw) THEN JsonErrorText ELSE AttributeErrorText

\* f"{payload.get('status', default)}"
StatusText(payload, default) ==
  IF "status" \in DOMAIN payload THEN <<ToString(payload.status)>> ELSE default

\* response bodies that are JSON text, and json.dumps(json.loads(body), indent=2)
JsonBodies == { <<"{\"ok\": true}">> }
Reindent(body) == <<"{", "\n  \"ok\": true", "\n}">>

\* lines 58-62: the body pretty-printed when it parses, as it is otherwise
PrintBody(body) == (IF body \in JsonBodies THEN Reindent(body) ELSE body) \o <<"\n">>

----------------------------------------------------------------------------
(* Initial state: the function is entered, nothing printed or sent *)

\* a str value where None may stand instead
Str(t) == [str |-> t]

\* the name confirm has no value before input() returns
NoAnswer == "(unbound)"

\* coder.py is not the script that runs
CoderOff ==
  /\ cpc = "off"
  /\ argv = <<>>
  /\ response = <<>>
  /\ code = PyNone
  /\ confirm = NoAnswer
  /\ executed = <<>>
  /\ status = "running"

Init ==
  /\ pc = "connect"
  /\ exit = "none"
  /\ conn = "none"
  /\ args \in Calls
  /\ sent = <<>>
  /\ rx = <<>>
  /\ stdout = <<>>
  /\ result = NotReturned
  /\ now = 0
  /\ CoderOff

\* the function returns value v through the exit named how; leaving the
\* async with block (line 41) releases a connection that is still open
Return(how, v) ==
  /\ pc' = "done"
  /\ exit' = how
  /\ result' = v
  /\ conn' = IF conn = "open" THEN "released" ELSE conn

----------------------------------------------------------------------------
(* Connecting and sending *)

Connecting == Line("Connecting to ", <<WS_URL>>, "...")

\* line 41 succeeds, line 42 prints
Connect ==
  /\ pc = "connect"
  /\ pc' = "send"
  /\ conn' = "open"
  /\ stdout' = stdout \o Connecting
               \o Line("Connected! Sending request to ", <<args.url>>, "...")
  /\ UNCHANGED <<exit, args, sent, rx, result, now>>

\* line 41 raises (refused, handshake failure): caught at line 91
ConnectFail ==
  /\ pc = "connect"
  /\ stdout' = stdout \o Connecting
               \o Line("Error: ", <<"[Errno 111] Connect call failed">>, "")
  /\ Return("exception", PyNone)
  /\ UNCHANGED <<args, sent, rx, now>>

\* line 45: the one write of the call
Send ==
  /\ pc = "send"
  /\ conn = "open"
  /\ sent' = Append(sent, JsonDumps(Message(args)))
  /\ pc' = "recv"
  /\ UNCHANGED <<exit, conn, args, rx, stdout, result, now>>

\* the peer or the network drops the connection, d units after the last event
PeerClose(d) ==
  /\ pc \in {"send", "recv"}
  /\ conn = "open"
  /\ d \in 0..(Timeout - 1)
  /\ conn' = "lost"
  /\ now' = IF pc = "recv" THEN now + d ELSE now
  /\ UNCHANGED <<pc, exit, args, sent, rx, stdout, result>>

\* reasons a ConnectionClosed exception carries
CloseReasons == { <<"no close frame received or sent">>,
                  <<"received 1000 (OK); then sent 1000 (OK)">> }

\* line 45 raises ConnectionClosed: caught at line 87
SendClosed(reason) ==
  /\ pc = "send"
  /\ conn = "lost"
  /\ stdout' = stdout \o Line("Connection closed: ", reason, "")
  /\ Return("closed", PyNone)
  /\ UNCHANGED <<args, sent, rx, now>>

----------------------------------------------------------------------------
(* The receive loop, lines 48-85: one action per branch of an iteration.   *)
(* wait_for(ws.recv(), timeout=30) yields frame raw after waiting d < 30.  *)

\* lines 49-54: a frame arrives within the timeout and is read
Arrives(raw, d) ==
  /\ pc = "recv"
  /\ conn = "open"
  /\ d \in 0..(Timeout - 1)
  /\ rx' = Append(rx, raw)
  /\ now' = now + d

\* the iteration ends without return: back to line 48
NextIteration ==
  /\ pc' = "recv"
  /\ UNCHANGED <<exit, conn, result>>

\* faulty variant of ResponseResult: the branch returns nothing, as lines 74 and 78 do
ResponseResultNone(payload) == PyNone

\* line 63: the value returned for an http_response
ResponseResult(payload) == payload

\* lines 56-63
RecvHttpResponse(raw, d) ==
  /\ Arrives(raw, d)
  /\ ~Raises(raw)
  /\ MsgType(raw) = "http_response"
  /\ stdout' = stdout
               \o Line("Response (Status: ", StatusText(Payload(raw), <<"N/A">>), "):")
               \o PrintBody(Get(Payload(raw), "body", <<>>))
  /\ Return("http_response", ResponseResult(Payload(raw)))
  /\ UNCHANGED <<args, sent>>

\* lines 65-66
RecvStreamStart(raw, d) ==
  /\ Arrives(raw, d)
  /\ ~Raises(raw)
  /\ MsgType(raw) = "stream_start"
  /\ stdout' = stdout
               \o Line("Stream started (Status: ", StatusText(Payload(raw), <<"200">>), ")")
  /\ NextIteration
  /\ UNCHANGED <<args, sent>>

\* faulty variant of PrintChunk: the fragment is put before what was printed
PrintChunkFirst(out, chunk) == chunk \o out

\* faulty variant of PrintChunk: the fragment is not printed
PrintChunkDropped(out, chunk) == out

\* line 70: print(chunk, end="", flush=True)
PrintChunk(out, chunk) == out \o chunk

\* lines 68-70
RecvStreamChunk(raw, d) ==
  /\ Arrives(raw, d)
  /\ ~Raises(raw)
  /\ MsgType(raw) = "stream_chunk"
  /\ stdout' = PrintChunk(stdout, Get(Payload(raw), "data", <<>>))
  /\ NextIteration
  /\ UNCHANGED <<args, sent>>

\* line 73
StreamEnded == <<"\n", "Stream ended.", "\n">>

\* lines 72-74
RecvStreamEnd(raw, d) ==
  /\ Arrives(raw, d)
  /\ ~Raises(raw)
  /\ MsgType(raw) = "stream_end"
  /\ stdout' = stdout \o StreamEnded
  /\ Return("stream_end", PyNone)
  /\ UNCHANGED <<args, sent>>

\* faulty variant of ErrorText: the payload's description is not looked up
ErrorTextDefault(payload) == <<"Unknown error">>

\* line 77: payload.get('error', 'Unknown error')
ErrorText(payload) == Get(payload, "error", <<"Unknown error">>)

\* lines 76-78
RecvError(raw, d) ==
  /\ Arrives(raw, d)
  /\ ~Raises(raw)
  /\ MsgType(raw) = "error"
  /\ stdout' = stdout \o Line("Error: ", ErrorText(Payload(raw)), "")
  /\ Return("error", PyNone)
  /\ UNCHANGED <<args, sent>>

\* faulty variant of RecvPong: no pong branch, the frame falls through to line 85
RecvPongUnknown(raw, d) ==
  /\ Arrives(raw, d)
  /\ ~Raises(raw)
  /\ MsgType(raw) = "pong"
  /\ stdout' = stdout \o Line("Unknown message type: ", <<MsgType(raw)>>, "")
  /\ NextIteration
  /\ UNCHANGED <<args, sent>>

\* lines 80-82
RecvPong(raw, d) ==
  /\ Arrives(raw, d)
  /\ ~Raises(raw)
  /\ MsgType(raw) = "pong"
  /\ NextIteration
  /\ UNCHANGED <<args, sent, stdout>>

KnownTypes == {"http_response", "stream_start", "stream_chunk", "stream_end",
               "error", "pong"}

\* faulty variant of RecvUnknown: the else branch returns as the error branch does
RecvUnknownReturns(raw, d) ==
  /\ Arrives(raw, d)
  /\ ~Raises(raw)
  /\ MsgType(raw) \notin KnownTypes
  /\ stdout' = stdout \o Line("Unknown message type: ", <<MsgType(raw)>>, "")
  /\ Return("error", PyNone)
  /\ UNCHANGED <<args, sent>>

\* lines 84-85
RecvUnknown(raw, d) ==
  /\ Arrives(raw, d)
  /\ ~Raises(raw)
  /\ MsgType(raw) \notin KnownTypes
  /\ stdout' = stdout \o Line("Unknown message type: ", <<MsgType(raw)>>, "")
  /\ NextIteration
  /\ UNCHANGED <<args, sent>>

\* faulty variant of RecvRaises: no except clause at line 91, the exception leaves the call
RecvRaisesPropagates(raw, d) ==
  /\ Arrives(raw, d)
  /\ Raises(raw)
  /\ stdout' = stdout
  /\ Return("raised", NotReturned)
  /\ UNCHANGED <<args, sent>>

\* lines 50-54, 57, 66, 69, 77 raise; caught at lines 91-92
RecvRaises(raw, d) ==
  /\ Arrives(raw, d)
  /\ Raises(raw)
  /\ stdout' = stdout \o Line("Error: ", ExceptionText(raw), "")
  /\ Return("exception", PyNone)
  /\ UNCHANGED <<args, sent>>

\* faulty variant of RecvClosed: no except clause for ConnectionClosed, line 91 catches
RecvClosedGeneric(reason) ==
  /\ pc = "recv"
  /\ conn = "lost"
  /\ stdout' = stdout \o Line("Error: ", reason, "")
  /\ Return("exception", PyNone)
  /\ UNCHANGED <<args, sent, rx, now>>

\* line 49 raises ConnectionClosed: caught at lines 87-88
RecvClosed(reason) ==
  /\ pc = "recv"
  /\ conn = "lost"
  /\ stdout' = stdout \o Line("Connection closed: ", reason, "")
  /\ Return("closed", PyNone)
  /\ UNCHANGED <<args, sent, rx, now>>

\* faulty variant of RecvTimeout: a cancellation notice is written on timeout
RecvTimeoutCancels ==
  /\ pc = "recv"
  /\ conn = "open"
  /\ now' = now + Timeout
  /\ sent' = Append(sent, JsonDumps([id |-> RequestId, type |-> "cancel"]))
  /\ stdout' = stdout \o Line("Timeout waiting for response", <<>>, "")
  /\ Return("timeout", PyNone)
  /\ UNCHANGED <<args, rx>>

\* faulty variant of RecvTimeout: one deadline for the whole call, counted from the send
RecvTimeoutFromSend ==
  /\ pc = "recv"
  /\ conn = "open"
  /\ now' = IF now < Timeout THEN Timeout ELSE now
  /\ stdout' = stdout \o Line("Timeout waiting for response", <<>>, "")
  /\ Return("timeout", PyNone)
  /\ UNCHANGED <<args, sent, rx>>

\* faulty variant of RecvTimeout: ws.recv() awaited without a timeout
RecvWaitsForever ==
  /\ pc = "recv"
  /\ conn = "open"
  /\ UNCHANGED vars

\* line 49 raises TimeoutError after 30 units without a frame: lines 89-90
RecvTimeout ==
  /\ pc = "recv"
  /\ conn = "open"
  /\ now' = now + Timeout
  /\ stdout' = stdout \o Line("Timeout waiting for response", <<>>, "")
  /\ Return("timeout", PyNone)
  /\ UNCHANGED <<args, sent, rx>>

----------------------------------------------------------------------------
(* The peer: the frames it may send *)

Envelope(t, i, p) == JsonDumps([type |-> t, id |-> i, payload |-> p])

ResponseOk ==
  [status |-> 200,
   headers |-> ("Content-Type" :> <<"application/json">>),
   body |-> <<"{\"ok\": true}">>]

ResponseNotFound ==
  [status |-> 404, headers |-> EmptyDict, body |-> <<"not found">>]

Pong == JsonDumps([type |-> "pong"])

Frames ==
  { Envelope("http_response", RequestId, ResponseOk),
    Envelope("http_response", OtherId, ResponseNotFound),
    Envelope("http_response", RequestId, EmptyDict),
    Envelope("http_response", RequestId, Scalar),
    Envelope("stream_start", RequestId, [status |-> 200]),
    Envelope("stream_start", OtherId, EmptyDict),
    Envelope("stream_chunk", RequestId, [data |-> <<"a">>]),
    Envelope("stream_chunk", RequestId, [data |-> <<"b", "c">>]),
    Envelope("stream_chunk", OtherId, [data |-> <<"z">>]),
    JsonDumps([type |-> "stream_chunk", id |-> RequestId]),
    Envelope("stream_chunk", RequestId, Scalar),
    JsonDumps([type |-> "stream_end", id |-> RequestId]),
    JsonDumps([type |-> "stream_end", id |-> OtherId]),
    Envelope("error", RequestId, [error |-> <<"upstream failed">>]),
    Envelope("error", OtherId, [error |-> <<"other failed">>]),
    Envelope("error", RequestId, [error |-> JsonErrorText]),
    Envelope("error", RequestId, EmptyDict),
    Pong,
    Envelope("telemetry", RequestId, EmptyDict),
    Envelope("telemetry", OtherId, Scalar),
    JsonDumps([id |-> OtherId]),
    NotJson(<<"not json">>),
    JsonDumps(Scalar) }

\* a peer that answers this call only, streaming
StreamFrames ==
  { Envelope("stream_start", RequestId, [status |-> 200]),
    Envelope("stream_chunk", RequestId, [data |-> <<"a">>]),
    Envelope("stream_chunk", RequestId, [data |-> <<"b", "c">>]),
    JsonDumps([type |-> "stream_end", id |-> RequestId]),
    Pong,
    Envelope("telemetry", RequestId, EmptyDict),
    Envelope("http_response", RequestId, ResponseOk),
    Envelope("error", RequestId, [error |-> <<"upstream failed">>]),
    NotJson(<<"not json">>) }

\* the frames of the timed specification
TimedFrames ==
  { Envelope("stream_start", RequestId, [status |-> 200]),
    Envelope("stream_chunk", RequestId, [data |-> <<"a">>]),
    JsonDumps([type |-> "stream_end", id |-> RequestId]),
    Pong,
    Envelope("telemetry", RequestId, EmptyDict),
    Envelope("http_response", RequestId, ResponseOk),
    Envelope("error", RequestId, [error |-> <<"upstream failed">>]),
    NotJson(<<"not json">>) }

\* how long a frame or a close is waited for
Delays == {0, 20}

----------------------------------------------------------------------------
(* Specifications *)

\* the peer sends at most max frames in one call
Sendable(frames, max) == IF Len(rx) < max THEN frames ELSE {}

Step(frames, delays, max) ==
  \/ Connect /\ UNCHANGED cvars
  \/ ConnectFail /\ UNCHANGED cvars
  \/ Send /\ UNCHANGED cvars
  \/ \E reason \in CloseReasons : SendClosed(reason) /\ UNCHANGED cvars
  \/ \E raw \in Sendable(frames, max), d \in delays : RecvHttpResponse(raw, d)
       /\ UNCHANGED cvars
  \/ \E raw \in Sendable(frames, max), d \in delays : RecvStreamStart(raw, d)
       /\ UNCHANGED cvars
  \/ \E raw \in Sendable(frames, max), d \in delays : RecvStreamChunk(raw, d)
       /\ UNCHANGED cvars
  \/ \E raw \in Sendable(frames, max), d \in delays : RecvStreamEnd(raw, d)
       /\ UNCHANGED cvars
  \/ \E raw \in Sendable(frames, max), d \in delays : RecvError(raw, d)
       /\ UNCHANGED cvars
  \/ \E raw \in Sendable(frames, max), d \in delays : RecvPong(raw, d)
       /\ UNCHANGED cvars
  \/ \E raw \in Sendable(frames, max), d \in delays : RecvUnknown(raw, d)
       /\ UNCHANGED cvars
  \/ \E raw \in Sendable(frames, max), d \in delays : RecvRaises(raw, d)
       /\ UNCHANGED cvars
  \/ \E d \in delays : PeerClose(d) /\ UNCHANGED cvars
  \/ \E reason \in CloseReasons : RecvClosed(reason) /\ UNCHANGED cvars
  \/ RecvTimeout /\ UNCHANGED cvars

Next == Step(Frames, {0}, MaxFrames)

Spec == Init /\ [][Next]_vars

NextStream == Step(StreamFrames, {0}, MaxStreamFrames)

SpecStream == Init /\ [][NextStream]_vars

NextTimed == Step(TimedFrames, Delays, MaxTimedFrames)

SpecTimed == Init /\ [][NextTimed]_vars

\* What the event loop guarantees: an awaited connect, send or receive
\* completes or raises; the timer of wait_for fires once no frame came for
\* Timeout units. Nothing obliges the peer to send a frame or to close.
Fairness ==
  /\ WF_vars((Connect \/ ConnectFail) /\ UNCHANGED cvars)
  /\ WF_vars((Send \/ \E reason \in CloseReasons : SendClosed(reason))
               /\ UNCHANGED cvars)
  /\ WF_vars((\E reason \in CloseReasons : RecvClosed(reason))
               /\ UNCHANGED cvars)
  /\ WF_vars(RecvTimeout /\ UNCHANGED cvars)

\* the timed specification, the peer sending finitely many frames
SpecLive == SpecTimed /\ Fairness

----------------------------------------------------------------------------
(* active-coder/coder.py: ask the model for code, extract it, run it.      *)
(* A text is a sequence of tokens; the fence, the language tag, a blank    *)
(* and a newline are tokens of their own, every other token is a run of    *)
(* characters with no backtick and no whitespace at its ends.              *)

\* the token of the three backticks that open or close a block
Fence == "[fence]"
\* [Pp]ython[3]?
PythonTags == {"python", "Python", "python3", "Python3"}
\* \s
Whitespace == {" ", "\n"}

\* the fence and [Pp]ython[3]? at token i
Opens(t, i) == i + 1 <= Len(t) /\ t[i] = Fence /\ t[i + 1] \in PythonTags
\* \s*\n after the tag, the \n at token j
Gap(t, i, j) ==
  /\ j \in (i + 2)..Len(t)
  /\ t[j] = "\n"
  /\ \A m \in (i + 2)..(j - 1) : t[m] \in Whitespace
\* \n and the fence at token k
Closes(t, k) == k + 1 <= Len(t) /\ t[k] = "\n" /\ t[k + 1] = Fence

\* every way the pattern matches: opener at i, newline at j, closer at k
Matches(t) ==
  { m \in (1..Len(t)) \X (1..Len(t)) \X (1..Len(t)) :
      /\ Opens(t, m[1])
      /\ Gap(t, m[1], m[2])
      /\ m[3] > m[2]
      /\ Closes(t, m[3]) }

Least(S) == CHOOSE x \in S : \A y \in S : x <= y
Greatest(S) == CHOOSE x \in S : \A y \in S : y <= x

\* lines 51-57: re.search takes the leftmost opener, the greedy \s* the last
\* newline that still lets the rest match, the lazy group the first closer
extract_code(llm_response) ==
  LET all == Matches(llm_response)
      i == Least({ m[1] : m \in all })
      j == Greatest({ m[2] : m \in { n \in all : n[1] = i } })
      k == Least({ m[3] : m \in { n \in all : n[1] = i /\ n[2] = j } })
  IN  IF all = {} THEN PyNone
      ELSE Str(SubSeq(llm_response, j + 1, k - 1))

\* line 103, if not code: None and the empty str are false
NotCode(c) == IF c = PyNone THEN TRUE ELSE c.str = <<>>

\* str.lower on the answers of the model
Lower(a) ==
  CASE a = "Y" -> "y"
    [] a = "N" -> "n"
    [] a = "YES" -> "yes"
    [] OTHER -> a

\* faulty variant of Confirmed: any answer that means yes is taken
ConfirmedLoosely(a) == Lower(a) \in {"y", "yes"}

\* line 68, negated: confirm.lower() == "y"
Confirmed(a) == Lower(a) = "y"

Rule == "----------------------------------------"

\* lines 61-64
ShowCode(c) ==
  <<"\n", "Generated Code:", "\n", Rule, "\n">> \o c \o <<"\n", Rule, "\n">>

\* nothing of execute_http_request runs in this script
ExecutorOff ==
  /\ pc = "off"
  /\ exit = "none"
  /\ conn = "none"
  /\ args = PyNone
  /\ sent = <<>>
  /\ rx = <<>>
  /\ result = NotReturned
  /\ now = 0

\* sys.argv: without a task, or with one
Argvs ==
  { <<"coder.py">>,
    <<"coder.py", "Calculate the 10th Fibonacci number">>,
    <<"coder.py", "List the files here">> }

\* what the model may answer
Responses ==
  { <<Fence, "python", "\n", "print(55)", "\n", Fence>>,
    <<"Here is the code:", "\n", Fence, "Python3", " ", "\n", "import os",
      "\n", "print(os.getcwd())", "\n", Fence, "\n", "Done.">>,
    <<Fence, "python", "\n", "\n", "print(2)", "\n", Fence>>,
    <<Fence, "python", "\n", "x = 1", "\n", Fence, "\n", Fence, "python",
      "\n", "x = 2", "\n", Fence>>,
    <<Fence, "bash", "\n", "rm -r build", "\n", Fence, "\n", Fence, "python",
      "\n", "print(3)", "\n", Fence>>,
    <<Fence, "python", "\n", "\n", Fence>>,
    <<Fence, "py", "\n", "print(1)", "\n", Fence>>,
    <<Fence, "PYTHON", "\n", "print(1)", "\n", Fence>>,
    <<Fence, "\n", "print(1)", "\n", Fence>>,
    <<Fence, "python", " ", "print(1)", "\n", Fence>>,
    <<Fence, "python", "\n", "print(1)">>,
    <<"print(1)">>,
    <<>> }

\* what the user may type at the prompt
Answers == {"y", "Y", "yes", "YES", " y", "n", "N", ""}

\* what subprocess.run may return
Completed ==
  { [stdout |-> <<"55", "\n">>, stderr |-> <<>>],
    [stdout |-> <<>>, stderr |-> <<"NameError: name 'x' is not defined", "\n">>] }

InitCoder ==
  /\ ExecutorOff
  /\ stdout = <<>>
  /\ cpc = "main"
  /\ argv \in Argvs
  /\ response = <<>>
  /\ code = PyNone
  /\ confirm = NoAnswer
  /\ executed = <<>>
  /\ status = "running"

\* sys.exit(n), or the end of main
Exit(n) ==
  /\ cpc' = "exited"
  /\ status' = n

\* lines 90-96
Usage ==
  /\ cpc = "main"
  /\ Len(argv) < 2
  /\ stdout' = stdout \o Line("Usage: python coder.py \"<your task>\"", <<>>, "")
  /\ Exit("1")
  /\ UNCHANGED <<argv, response, code, confirm, executed>>

\* lines 98-101 and 19-45: the model answers r
AskLlm(r) ==
  /\ cpc = "main"
  /\ Len(argv) >= 2
  /\ stdout' = stdout \o Line("User Task: ", <<argv[2]>>, "")
  /\ response' = r
  /\ cpc' = "extract"
  /\ UNCHANGED <<argv, code, confirm, executed, status>>

\* lines 46-48: the request fails
AskLlmFails ==
  /\ cpc = "main"
  /\ Len(argv) >= 2
  /\ stdout' = stdout \o Line("User Task: ", <<argv[2]>>, "")
               \o Line("Error communicating with switchAILocal: ",
                       <<"Connection refused">>, "")
  /\ Exit("1")
  /\ UNCHANGED <<argv, response, code, confirm, executed>>

\* lines 104-108: no code in the response
ExtractNothing ==
  /\ cpc = "extract"
  /\ code' = extract_code(response)
  /\ NotCode(code')
  /\ stdout' = stdout \o Line("No code block found in LLM response.", <<>>, "")
               \o Line("Raw response: ", response, "")
  /\ Exit("1")
  /\ UNCHANGED <<argv, response, confirm, executed>>

\* lines 104, 111 and 61-67: the code is shown and the prompt waits
ExtractCode ==
  /\ cpc = "extract"
  /\ code' = extract_code(response)
  /\ ~NotCode(code')
  /\ stdout' = stdout \o ShowCode(code'.str)
               \o <<"\n", "Execute this code? (y/N): ">>
  /\ cpc' = "input"
  /\ UNCHANGED <<argv, response, confirm, executed, status>>

\* lines 67-70: the answer is not y, execute_code returns and main ends
InputNo(a) ==
  /\ cpc = "input"
  /\ confirm' = a
  /\ ~Confirmed(a)
  /\ stdout' = stdout \o Line("Execution cancelled.", <<>>, "")
  /\ Exit("0")
  /\ UNCHANGED <<argv, response, code, executed>>

\* lines 67-72: the answer is y
InputYes(a) ==
  /\ cpc = "input"
  /\ confirm' = a
  /\ Confirmed(a)
  /\ stdout' = stdout \o <<"\n">> \o Line("Executing...", <<>>, "")
  /\ cpc' = "run"
  /\ UNCHANGED <<argv, response, code, executed, status>>

\* line 67: input() raises EOFError, nothing catches it
InputEOF ==
  /\ cpc = "input"
  /\ Exit("1")
  /\ UNCHANGED <<stdout, argv, response, code, confirm, executed>>

\* lines 74-79: subprocess.run is called with the code
Run == executed' = Append(executed, code.str)

\* lines 80-84: the child ended within 30 s
RunCode(r) ==
  /\ cpc = "run"
  /\ Run
  /\ stdout' = stdout \o Line("Output:", <<>>, "") \o r.stdout \o <<"\n">>
               \o IF r.stderr # <<>>
                  THEN Line("Errors:", <<>>, "") \o r.stderr \o <<"\n">>
                  ELSE <<>>
  /\ Exit("0")
  /\ UNCHANGED <<argv, response, code, confirm>>

\* lines 85-86: subprocess.TimeoutExpired
RunTimesOut ==
  /\ cpc = "run"
  /\ Run
  /\ stdout' = stdout \o Line("Execution timed out (30s limit).", <<>>, "")
  /\ Exit("0")
  /\ UNCHANGED <<argv, response, code, confirm>>

\* lines 87-88: subprocess.run raises
RunFails ==
  /\ cpc = "run"
  /\ Run
  /\ stdout' = stdout \o Line("Execution failed: ",
                              <<"[Errno 12] Cannot allocate memory">>, "")
  /\ Exit("0")
  /\ UNCHANGED <<argv, response, code, confirm>>

NextCoder ==
  \/ Usage /\ UNCHANGED evars
  \/ \E r \in Responses : AskLlm(r) /\ UNCHANGED evars
  \/ AskLlmFails /\ UNCHANGED evars
  \/ ExtractNothing /\ UNCHANGED evars
  \/ ExtractCode /\ UNCHANGED evars
  \/ \E a \in Answers : InputNo(a) /\ UNCHANGED evars
  \/ \E a \in Answers : InputYes(a) /\ UNCHANGED evars
  \/ InputEOF /\ UNCHANGED evars
  \/ \E r \in Completed : RunCode(r) /\ UNCHANGED evars
  \/ RunTimesOut /\ UNCHANGED evars
  \/ RunFails /\ UNCHANGED evars

SpecCoder == InitCoder /\ [][NextCoder]_vars

----------------------------------------------------------------------------
(* Vocabulary of the properties *)

Last(s) == s[Len(s)]

\* this step reads a frame; Last(rx') is the frame read
Reads == Len(rx') = Len(rx) + 1

\* a decoded envelope of type t
HasType(raw, t) == IF IsEnvelope(raw) THEN MsgType(raw) = t ELSE FALSE

\* a decoded envelope that carries an id other than the pending exchange's
Foreign(raw) ==
  IF IsEnvelope(raw)
  THEN "id" \in DOMAIN JsonLoads(raw) /\ MsgId(raw) # RequestId
  ELSE FALSE

\* a decoded envelope of type t for the pending exchange, its payload an object
Own(raw, t) ==
  IF HasType(raw, t)
  THEN MsgId(raw) = RequestId /\ IsDict(Payload(raw))
  ELSE FALSE

\* the call is pending and untouched by the step
StillPending ==
  /\ pc' = "recv"
  /\ exit' = "none"
  /\ result' = NotReturned

\* what the console shows when the request has been sent
Preamble ==
  Connecting \o Line("Connected! Sending request to ", <<args.url>>, "...")

\* the data fragments of the stream_chunk frames of s, concatenated in order
RECURSIVE ChunkData(_)
ChunkData(s) ==
  IF s = <<>> THEN <<>>
  ELSE (IF HasType(s[1], "stream_chunk") THEN Payload(s[1]).data ELSE <<>>)
       \o ChunkData(Tail(s))

\* s is stream_start, stream_chunk x N, stream_end for the pending exchange
IsStream(s) ==
  /\ Len(s) >= 2
  /\ Own(s[1], "stream_start") /\ "status" \in DOMAIN Payload(s[1])
  /\ Own(Last(s), "stream_end")
  /\ \A i \in 2..(Len(s) - 1) :
       Own(s[i], "stream_chunk") /\ "data" \in DOMAIN Payload(s[i])

\* the console of a call that streamed the body after the start line of frame f
StreamConsole(f, body) ==
  Preamble
  \o Line("Stream started (Status: ", <<ToString(Payload(f).status)>>, ")")
  \o body
  \o StreamEnded

NotPong(raw) == ~HasType(raw, "pong")

EndsWith(s, t) ==
  /\ Len(s) >= Len(t)
  /\ SubSeq(s, Len(s) - Len(t) + 1, Len(s)) = t

\* the message types of the wire enumeration that may come in
InboundTypes == {"http_response", "stream_start", "stream_chunk", "stream_end",
                 "error", "pong"}

\* a decoded envelope whose type value is none of the enumeration
Unrecognized(raw) ==
  IF IsEnvelope(raw)
  THEN "type" \in DOMAIN JsonLoads(raw) /\ MsgType(raw) \notin InboundTypes
  ELSE FALSE

\* the fixed texts the program's console messages start with
Labels ==
  { "Connecting to ", "Connected! Sending request to ", "Response (Status: ",
    "Stream started (Status: ", "Stream ended.", "Error: ",
    "Unknown message type: ", "Connection closed: ",
    "Timeout waiting for response" }

\* the fixed text of the last console message
LastLabel(out) ==
  LET at == { i \in 1..Len(out) : out[i] \in Labels }
  IN  IF at = {} THEN "" ELSE out[CHOOSE i \in at : \A j \in at : j <= i]

\* the outcome kind a reader of the console takes the last line for
Classify(label) ==
  CASE label = "Timeout waiting for response" -> "timeout"
    [] label = "Connection closed: " -> "connection loss"
    [] label = "Error: " -> "remote error"
    [] OTHER -> "success"

\* the outcome kind of each way the call ends
Kind(e) ==
  CASE e \in {"http_response", "stream_end"} -> "success"
    [] e = "timeout" -> "timeout"
    [] e = "closed" -> "connection loss"
    [] e = "error" -> "remote error"
    [] OTHER -> "local failure"

----------------------------------------------------------------------------
(* C1..C10 *)

\* C1: while the exchange is pending, an inbound envelope that carries another
\* id is dropped: whatever its type, the call stays pending, nothing is
\* returned, and a foreign stream_chunk adds no data to the output.
C1_ForeignEnvelopeDropped ==
  [][ (Reads /\ Foreign(Last(rx')))
        => /\ StillPending
           /\ HasType(Last(rx'), "stream_chunk") => stdout' = stdout ]_vars

\* C2: after stream_start, N stream_chunk frames and stream_end for the pending
\* exchange (N >= 0), the call has ended through stream_end and the body shown
\* to the user, between the start line and the end line, is the concatenation
\* of the N chunk payloads in arrival order.
C2_StreamBodyIsConcatenation ==
  IsStream(rx)
    => /\ pc = "done"
       /\ exit = "stream_end"
       /\ stdout = StreamConsole(rx[1], ChunkData(rx))

C2_Witness ==
  /\ IsStream(rx)
  /\ pc = "done"
  /\ Len(rx) >= 4
  /\ ChunkData(rx) = <<"a", "b", "c">>

\* C3: an http_response for the pending exchange with no stream_start before it
\* ends the call: the value returned is that response's payload (status,
\* headers, body), and it is the last frame read.
C3_ResponseResolves ==
  \A i \in 1..Len(rx) :
    (/\ Own(rx[i], "http_response")
     /\ \A j \in 1..(i - 1) : ~HasType(rx[j], "stream_start"))
      => /\ i = Len(rx)
         /\ pc = "done"
         /\ exit = "http_response"
         /\ result = Payload(rx[i])

C3_Witness ==
  /\ pc = "done"
  /\ Len(rx) = 1
  /\ Own(rx[1], "http_response")
  /\ result = ResponseOk

\* C4: the call has one deadline of 30 units measured from the send: it is
\* never still waiting at or after 30 units, and when it ends by timeout it
\* does so at 30 units.
C4_DeadlineFromSend ==
  /\ (pc = "recv" /\ conn = "open") => now < Timeout
  /\ exit = "timeout" => now = Timeout

\* C5: a frame that fails to decode is dropped: the call stays pending and the
\* loop goes on.
C5_MalformedFrameIsolated ==
  [][ (Reads /\ ~Decodes(Last(rx'))) => StillPending ]_vars

\* C6: the call ends through exactly one exit, and what it shows for the
\* outcome tells the kind: success, timeout, remote-reported error or
\* connection loss, each only for an outcome of that kind.
C6_OutcomeTellsKind ==
  /\ pc = "done" <=> exit # "none"
  /\ pc = "done" => Classify(LastLabel(stdout)) = Kind(exit)

\* C7: a pong never resolves or fails the pending call and leaves the output
\* unchanged; a stream whose frames are interleaved with pongs ends with
\* exactly the chunk data as its body.
C7_PongDiscarded ==
  /\ [][ (Reads /\ HasType(Last(rx'), "pong"))
           => (StillPending /\ stdout' = stdout /\ sent' = sent) ]_vars
  /\ [](IsStream(SelectSeq(rx, NotPong))
          => /\ pc = "done"
             /\ exit = "stream_end"
             /\ stdout = StreamConsole(SelectSeq(rx, NotPong)[1], ChunkData(rx)))

C7_Witness ==
  /\ pc = "done"
  /\ exit = "stream_end"
  /\ Len(rx) = 5
  /\ HasType(rx[1], "stream_start")
  /\ HasType(rx[2], "stream_chunk")
  /\ HasType(rx[3], "pong")
  /\ HasType(rx[4], "stream_chunk")

\* C8: a decoded frame with an unrecognized type value neither resolves nor
\* fails the pending call, and the loop waits for the next frame.
C8_UnknownTypeIgnored ==
  [][ (Reads /\ Unrecognized(Last(rx'))) => StillPending ]_vars

C8_Witness ==
  /\ Len(rx) = 2
  /\ Unrecognized(rx[1])
  /\ exit = "http_response"

\* C9: an error envelope for the pending exchange, before or after a
\* stream_start, ends the call at once through the error exit, and the
\* description its payload carries is what the call reports last.
C9_ErrorFailsWithDescription ==
  \A i \in 1..Len(rx) :
    (Own(rx[i], "error") /\ "error" \in DOMAIN Payload(rx[i]))
      => /\ i = Len(rx)
         /\ pc = "done"
         /\ exit = "error"
         /\ EndsWith(stdout, Line("Error: ", Payload(rx[i]).error, ""))

C9_Witness ==
  /\ Len(rx) = 2
  /\ HasType(rx[1], "stream_start")
  /\ Own(rx[2], "error")
  /\ Get(Payload(rx[2]), "error", <<>>) = <<"upstream failed">>
  /\ exit = "error"

\* C10: once the connection is lost while the call is in progress, the only
\* thing the call does is end through the connection-closed exit, reporting
\* it, without reading another frame.
C10_ConnectionLossEndsCall ==
  [][ (conn = "lost" /\ pc # "done")
        => /\ pc' = "done"
           /\ exit' = "closed"
           /\ rx' = rx
           /\ sent' = sent
           /\ \E reason \in CloseReasons :
                stdout' = stdout \o Line("Connection closed: ", reason, "") ]_vars

C10_Witness ==
  /\ exit = "closed"
  /\ conn = "lost"
  /\ Len(rx) = 2
  /\ HasType(rx[1], "stream_start")
  /\ HasType(rx[2], "stream_chunk")


----------------------------------------------------------------------------
(* C11..C18 *)

\* the tokens the chunk payloads of the peer are made of
DataTokens == {"a", "b", "c", "z"}
IsData(t) == t \in DataTokens

\* C11: at every moment, and so when the call ends, the fragments shown are
\* the data of every stream_chunk received so far, in arrival order, none
\* dropped, repeated or moved.
C11_FragmentsDeliveredInOrder ==
  SelectSeq(stdout, IsData) = ChunkData(rx)

C11_Witness ==
  /\ pc = "done"
  /\ exit \in {"stream_end", "error", "http_response"}
  /\ ChunkData(rx) = <<"b", "c", "a">>


\* the exits reached only after the request was written
AfterSend == {"http_response", "stream_end", "error", "timeout"}

\* C12 as stated: every call, however it ends, has written exactly one frame,
\* the http_request envelope.
C12_ExactlyOneFrame ==
  pc = "done" => sent = <<JsonDumps(Message(args))>>

\* C12 amended: a call writes at most one frame, the http_request envelope
\* with the call's id, before any inbound frame is read, and never another
\* (no retry, no cancellation notice); it has written none only when the
\* connect failed or the connection was lost before the send.
C12_AtMostOneRequestFrame ==
  /\ sent \in {<<>>, <<JsonDumps(Message(args))>>}
  /\ sent # <<>> =>
       /\ JsonLoads(sent[1]).id = RequestId
       /\ JsonLoads(sent[1]).type = "http_request"
  /\ (pc = "recv" \/ rx # <<>> \/ exit \in AfterSend) => sent # <<>>
  /\ pc \in {"connect", "send"} => sent = <<>>
  /\ (pc = "done" /\ sent = <<>>) =>
       \/ conn = "none" /\ exit = "exception"
       \/ conn = "lost" /\ exit = "closed" /\ rx = <<>>

C12_Witness ==
  /\ exit = "timeout"
  /\ Len(rx) = 2
  /\ Len(sent) = 1


\* no stream_start among the frames read so far
AwaitingFirst == \A j \in 1..Len(rx) : ~HasType(rx[j], "stream_start")

\* C13: a stream_chunk for the pending exchange read before any stream_start
\* fails the call (it ends, and not with success), and its data is not shown
\* as body.
C13_ChunkBeforeStartFails ==
  [][ (Reads /\ Own(Last(rx'), "stream_chunk") /\ AwaitingFirst)
        => /\ pc' = "done"
           /\ exit' \notin {"http_response", "stream_end"}
           /\ SelectSeq(stdout', IsData) = SelectSeq(stdout, IsData) ]_vars

\* C14: a call ends through stream_end only if a stream_start was read before
\* it, and through http_response only if no stream_start or stream_chunk was
\* read before it.
C14_LifecycleTransitions ==
  /\ exit = "stream_end" =>
       \E j \in 1..(Len(rx) - 1) : HasType(rx[j], "stream_start")
  /\ exit = "http_response" =>
       \A j \in 1..(Len(rx) - 1) :
         ~HasType(rx[j], "stream_start") /\ ~HasType(rx[j], "stream_chunk")


\* C16: the timeout is an inactivity timer restarted by every receive. The call
\* ends with the timeout outcome only by a step of the receive loop in which
\* no frame is read and a full Timeout passes since the last frame read (or
\* the send); a step that reads a frame, of whatever type, waited less than
\* Timeout and does not end with the timeout outcome.
C16_InactivityTimer ==
  [][ /\ (exit' = "timeout" /\ exit # "timeout")
        => /\ pc = "recv"
           /\ rx' = rx
           /\ now' = now + Timeout
      /\ Reads
        => /\ now' - now < Timeout
           /\ exit' # "timeout" ]_vars

\* a pong and an unknown-type frame, each after 20 units, then 30 silent units
C16_Witness ==
  /\ exit = "timeout"
  /\ now = 20 + 20 + Timeout
  /\ Len(rx) = 2
  /\ HasType(rx[1], "pong")
  /\ Unrecognized(rx[2])


\* the exits through the except clauses of lines 87-92
FailureExits == {"exception", "closed", "timeout"}

\* C17: a connect failure, a closed connection, a receive timeout and an
\* undecodable frame each end the call by returning None, never by raising;
\* after a connect failure no request frame has been sent.
C17_NoFailurePropagates ==
  /\ pc = "done" => result # NotReturned
  /\ exit \in FailureExits => pc = "done" /\ result = PyNone
  /\ (pc = "done" /\ conn = "none") =>
       exit = "exception" /\ result = PyNone /\ sent = <<>>
  /\ (pc = "done" /\ conn = "lost") => exit = "closed" /\ result = PyNone
  /\ (rx # <<>> /\ ~Decodes(Last(rx))) =>
       pc = "done" /\ exit = "exception" /\ result = PyNone

\* an undecodable frame after another frame ended the call with None
C17_Witness ==
  /\ Len(rx) = 2
  /\ ~Decodes(rx[2])
  /\ pc = "done"
  /\ result = PyNone


\* a frame after which the loop goes on, as the claim lists them
NonTerminal(raw) ==
  \/ HasType(raw, "stream_start")
  \/ HasType(raw, "stream_chunk")
  \/ HasType(raw, "pong")
  \/ Unrecognized(raw)

\* C15: when the peer sends finitely many frames the call eventually returns,
\* and while it is still receiving every frame read so far was a non-terminal
\* one (stream_start, stream_chunk, pong or unknown type).
C15_EventuallyReturns ==
  /\ <>(pc = "done")
  /\ [](pc = "recv" => \A j \in 1..Len(rx) : NonTerminal(rx[j]))

\* the peer sent all its frames, none terminal, and the call returned by timeout
C15_Witness ==
  /\ pc = "done"
  /\ exit = "timeout"
  /\ Len(rx) = MaxTimedFrames
  /\ \A j \in 1..Len(rx) : NonTerminal(rx[j])


\* the answers the claim counts as consent
Yes == {"y", "Y"}

\* c stands in text t inside a block opened by a fence with a python tag and
\* closed by a fence
FencedIn(t, c) ==
  \E i \in 1..Len(t), k \in 1..Len(t) :
    /\ t[i] = Fence
    /\ i + 1 <= Len(t)
    /\ t[i + 1] \in PythonTags
    /\ t[k] = Fence
    /\ \E a \in (i + 2)..k : SubSeq(t, a, a + Len(c) - 1) = c /\ a + Len(c) <= k

\* C18: code is handed to the interpreter only when a fenced python block was
\* extracted from the response and the user answered y or Y, and what runs is
\* that block, once; when no block was found or the answer is anything else,
\* nothing is executed.
C18_RunsOnlyConfirmedBlock ==
  /\ executed # <<>> =>
       /\ code # PyNone
       /\ executed = <<code.str>>
       /\ FencedIn(response, code.str)
       /\ confirm \in Yes
  /\ (code = PyNone \/ confirm \notin Yes) => executed = <<>>

\* the block of a response with prose around it ran after the answer Y
C18_Witness ==
  /\ cpc = "exited"
  /\ confirm = "Y"
  /\ executed = << <<"import os", "\n", "print(os.getcwd())">> >>

====
